---- MODULE Spec2Model ----
(***************************************************************************)
(* Model of the orka-playground HTTP servers and their request metrics.    *)
(*                                                                         *)
(* The repository holds several variants of one small web server:          *)
(*   - index.php and the two Perl servers keep their own MetricsCollector  *)
(*     (two hashes keyed by strings joined with "_");                      *)
(*   - the Go servers and the TypeScript server record into Prometheus     *)
(*     client vectors from a middleware around the route handlers.         *)
(*                                                                         *)
(* Strings are sequences of one-character strings, so that joining a key   *)
(* with "_" and splitting it again is computed, not assumed.  The fixed    *)
(* text of an exposition line is kept as one element of the line.          *)
(* Durations are whole time units (milliseconds).                          *)
(***************************************************************************)
EXTENDS Integers, Sequences, FiniteSets, Bags, TLC

VARIABLES
    requestsTotal,      \* MetricsCollector: joined key -> count
    requestDurations,   \* MetricsCollector: joined key -> sequence of durations
    output,             \* value returned by the last collector call (<<>>: none)
    renders,            \* history: getMetrics calls since the last recordRequest, up to 2
    calls,              \* history: the bag of record calls made
    completed,          \* history: the bag of requests answered
    httpRequestsTotal,  \* Go: CounterVec, label values -> count
    httpRequestDuration,\* Go: HistogramVec, label values -> [count, sum]
    gathered,           \* Go: what the last /metrics response reported
    pc,                 \* Go: where each request goroutine stands in the middleware
    req,                \* Go: each goroutine's request
    ww,                 \* Go: each goroutine's response writer and its wrapper
    recorded,           \* Go: the label values each goroutine counted its request under
    lastRequest,        \* socket servers: the request handled last and its outcome (<<>>: none)
    clients,            \* chat: the connections held in the clients map
    chatPc,             \* chat: where each goroutine stands
    visiting,           \* chat: the connections handleMessages' range loop has yet to visit
    cur,                \* chat: the connection the range loop is at (0: none)
    access,             \* chat: the access to the clients map each goroutine is in the middle of
    tainted,            \* chat: the goroutines whose access overlapped a conflicting one
    crashed,            \* chat: the runtime has ended the process with a fatal error
    closed,             \* chat: the connections whose peer has gone or that were closed
    msgs                \* chat: the number of messages each connection has sent

collectorVars == <<requestsTotal, requestDurations, output, renders>>
historyVars == <<calls, completed>>
goVars == <<httpRequestsTotal, httpRequestDuration, gathered, pc, req, ww, recorded>>
serverVars == <<lastRequest>>
chatVars == <<clients, chatPc, visiting, cur, access, tainted, crashed, closed, msgs>>
vars == <<collectorVars, historyVars, goVars, serverVars, chatVars>>

---------------------------------------------------------------------------
(* Bounds of the model                                                     *)

\* Number of connections made to the chat server.
NumConns == 2

\* Number of messages a chat connection sends.
MaxMessages == 1

\* Number of record calls made on the collector.
MaxCalls == 2

\* Number of requests a server handles one after the other.
MaxRequests == 2

\* Number of requests the Go server handles at the same time.
NumGoroutines == 2

\* Number of ResponseWriter calls a handler under the middleware makes.
MaxHandlerCalls == 2

---------------------------------------------------------------------------
(* Strings                                                                 *)

GET == <<"G", "E", "T">>
GET_ == <<"G", "E", "T", "_">>
POST == <<"P", "O", "S", "T">>
EmptyStr == <<>>

\* The separator recordRequest joins the key fields with.
Sep == "_"

Digits == <<"0", "1", "2", "3", "4", "5", "6", "7", "8", "9">>

\* Decimal text of a natural number ("{$statusCode}", "$count").
RECURSIVE ToStr(_)
ToStr(n) ==
    IF n < 10 THEN <<Digits[n + 1]>>
    ELSE ToStr(n \div 10) \o <<Digits[(n % 10) + 1]>>

\* Index of the first ch in s at or after i, 0 when there is none.
RECURSIVE IndexFrom(_, _, _)
IndexFrom(s, ch, i) ==
    IF i > Len(s) THEN 0
    ELSE IF s[i] = ch THEN i
    ELSE IndexFrom(s, ch, i + 1)

\* Index of the first separator in s, 0 when there is none.
FirstSepFrom(s, i) == IndexFrom(s, Sep, i)

\* The path of a request URI: what stands before the first "?".
UrlPath(uri) ==
    LET q == IndexFrom(uri, "?", 1) IN
    IF q = 0 THEN uri ELSE SubSeq(uri, 1, q - 1)

\* explode('_', s, limit) / split('_', s, limit): at most limit fields, the
\* last one holding the rest of the string, separators included.
RECURSIVE Explode(_, _)
Explode(s, limit) ==
    LET i == FirstSepFrom(s, 1) IN
    IF limit <= 1 \/ i = 0 THEN <<s>>
    ELSE <<SubSeq(s, 1, i - 1)>> \o Explode(SubSeq(s, i + 1, Len(s)), limit - 1)

RECURSIVE SumSeq(_)
SumSeq(s) == IF s = <<>> THEN 0 ELSE Head(s) + SumSeq(Tail(s))

Range(s) == {s[i] : i \in DOMAIN s}

EmptyMap == <<>>

\* All the orders in which a hash with key set S can be iterated.
Orderings(S) ==
    {f \in [1..Cardinality(S) -> S] : \A i, j \in 1..Cardinality(S) : f[i] = f[j] => i = j}

---------------------------------------------------------------------------
(* MetricsCollector (index.php; the Perl servers hold the same class)      *)

\* $key = "{$method}_{$endpoint}_{$statusCode}"
CounterKey(method, endpoint, statusCode) ==
    method \o <<Sep>> \o endpoint \o <<Sep>> \o ToStr(statusCode)

\* $durationKey = "{$method}_{$endpoint}"
DurationKey(method, endpoint) ==
    method \o <<Sep>> \o endpoint

\* requestsTotal after recordRequest: the entry is created at 0 when absent,
\* then incremented.
RecordTotal(rt, key) ==
    IF key \in DOMAIN rt THEN [rt EXCEPT ![key] = @ + 1]
    ELSE (key :> 1) @@ rt

\* requestDurations after recordRequest: the duration is appended to the
\* key's list, created empty when absent.
RecordDuration(rd, key, duration) ==
    IF key \in DOMAIN rd THEN [rd EXCEPT ![key] = Append(@, duration)]
    ELSE (key :> <<duration>>) @@ rd

HelpTotal == <<"# HELP http_requests_total Total number of HTTP requests">>
TypeTotal == <<"# TYPE http_requests_total counter">>
HelpDuration == <<"# HELP http_request_duration_seconds Duration of HTTP requests in seconds">>
TypeDuration == <<"# TYPE http_request_duration_seconds histogram">>

\* One http_requests_total line from its label texts and value text.
TotalLine(method, endpoint, statusCode, count) ==
    <<"http_requests_total{method=\"">> \o method \o <<"\",endpoint=\"">> \o endpoint
        \o <<"\",status_code=\"">> \o statusCode \o <<"\"} ">> \o count

CountLine(method, endpoint, count) ==
    <<"http_request_duration_seconds_count{method=\"">> \o method
        \o <<"\",endpoint=\"">> \o endpoint \o <<"\"} ">> \o count

SumLine(method, endpoint, sum) ==
    <<"http_request_duration_seconds_sum{method=\"">> \o method
        \o <<"\",endpoint=\"">> \o endpoint \o <<"\"} ">> \o sum

\* A line that reports every counter as 1.
RenderTotalAsOne(rt, key) ==
    LET f == Explode(key, 3) IN
    TotalLine(f[1], f[2], f[3], ToStr(1))

\* The line getMetrics writes for one requestsTotal entry: the key is split
\* again on the separator into three fields.
RenderTotal(rt, key) ==
    LET f == Explode(key, 3) IN
    TotalLine(f[1], f[2], f[3], ToStr(rt[key]))

\* The two lines getMetrics writes for one requestDurations entry.
RenderDuration(rd, key) ==
    LET f == Explode(key, 2) IN
    << CountLine(f[1], f[2], ToStr(Len(rd[key]))),
       SumLine(f[1], f[2], ToStr(SumSeq(rd[key]))) >>

\* A getMetrics that writes the TYPE lines only when it has data lines.
RenderTypeWithData(rt, rd, ot, od) ==
    <<HelpTotal>> \o (IF Len(ot) > 0 THEN <<TypeTotal>> ELSE <<>>)
        \o [i \in 1..Len(ot) |-> RenderTotal(rt, ot[i])]
        \o <<HelpDuration>> \o (IF Len(od) > 0 THEN <<TypeDuration>> ELSE <<>>)
        \o [i \in 1..(2 * Len(od)) |-> RenderDuration(rd, od[(i + 1) \div 2])[2 - (i % 2)]]

\* A getMetrics whose first loop skips the first key it iterates over.
RenderDropFirst(rt, rd, ot, od) ==
    <<HelpTotal, TypeTotal>>
        \o [i \in 1..(Len(ot) - 1) |-> RenderTotal(rt, ot[i + 1])]
        \o <<HelpDuration, TypeDuration>>
        \o [i \in 1..(2 * Len(od)) |-> RenderDuration(rd, od[(i + 1) \div 2])[2 - (i % 2)]]

\* getMetrics' return value when the two hashes are iterated in the orders
\* ot and od: a sequence of lines.
Render(rt, rd, ot, od) ==
    <<HelpTotal, TypeTotal>>
        \o [i \in 1..Len(ot) |-> RenderTotal(rt, ot[i])]
        \o <<HelpDuration, TypeDuration>>
        \o [i \in 1..(2 * Len(od)) |-> RenderDuration(rd, od[(i + 1) \div 2])[2 - (i % 2)]]

---------------------------------------------------------------------------
(* The collector driven through its two methods                            *)

\* The (method, endpoint) pairs record is called with: the specification's
\* "/api/sample_2", a plain path, and two pairs whose fields hold the
\* separator or nothing.
ApiSample2 == <<"/", "a", "p", "i", "/", "s", "a", "m", "p", "l", "e", "_", "2">>
Root == <<"/">>
LabelPairs == {<<GET, ApiSample2>>, <<POST, Root>>, <<GET, <<Sep>>>>, <<GET_, EmptyStr>>}
StatusCodes == {200, 404}
Durations == {1, 2}

\* The Go server before its first request.
GoInit ==
    /\ httpRequestsTotal = EmptyMap
    /\ httpRequestDuration = EmptyMap
    /\ gathered = [totals |-> EmptyMap, durations |-> EmptyMap]
    /\ pc = [g \in 1..NumGoroutines |-> "idle"]
    /\ req = [g \in 1..NumGoroutines |-> <<>>]
    /\ ww = [g \in 1..NumGoroutines |-> <<>>]
    /\ recorded = [g \in 1..NumGoroutines |-> <<>>]

\* The chat server once main has started handleMessages: no connection yet,
\* the broadcaster waiting on the channel.
ChatInit ==
    /\ clients = {}
    /\ chatPc = [g \in 0..NumConns |-> IF g = 0 THEN "receive" ELSE "idle"]
    /\ visiting = {}
    /\ cur = 0
    /\ access = [g \in 0..NumConns |-> "none"]
    /\ tainted = {}
    /\ crashed = FALSE
    /\ closed = {}
    /\ msgs = [c \in 1..NumConns |-> 0]

Init ==
    /\ requestsTotal = EmptyMap
    /\ requestDurations = EmptyMap
    /\ output = <<>>
    /\ renders = 0
    /\ calls = EmptyBag
    /\ completed = EmptyBag
    /\ GoInit
    /\ lastRequest = <<>>
    /\ ChatInit

\* MetricsCollector::recordRequest($method, $endpoint, $statusCode, $duration)
RecordRequest ==
    /\ BagCardinality(calls) < MaxCalls
    /\ \E pair \in LabelPairs, statusCode \in StatusCodes, duration \in Durations :
        LET method == pair[1]
            endpoint == pair[2]
        IN
        /\ requestsTotal' = RecordTotal(requestsTotal, CounterKey(method, endpoint, statusCode))
        /\ requestDurations' =
               RecordDuration(requestDurations, DurationKey(method, endpoint), duration)
        /\ calls' = calls (+) SetToBag({[method |-> method, endpoint |-> endpoint,
                                          statusCode |-> statusCode, duration |-> duration]})
    /\ output' = <<>>
    /\ renders' = 0
    /\ UNCHANGED <<completed, goVars, serverVars, chatVars>>

\* A getMetrics that empties the duration lists once they are reported.
GetMetricsAndReset ==
    /\ \E ot \in Orderings(DOMAIN requestsTotal), od \in Orderings(DOMAIN requestDurations) :
        output' = Render(requestsTotal, requestDurations, ot, od)
    /\ renders' = IF renders < 2 THEN renders + 1 ELSE renders
    /\ requestDurations' = [k \in DOMAIN requestDurations |-> <<>>]
    /\ UNCHANGED <<requestsTotal, calls, completed, goVars, serverVars, chatVars>>

\* MetricsCollector::getMetrics()
GetMetrics ==
    /\ \E ot \in Orderings(DOMAIN requestsTotal), od \in Orderings(DOMAIN requestDurations) :
        output' = Render(requestsTotal, requestDurations, ot, od)
    /\ renders' = IF renders < 2 THEN renders + 1 ELSE renders
    /\ UNCHANGED <<requestsTotal, requestDurations, calls, completed, goVars, serverVars, chatVars>>

Next == RecordRequest \/ GetMetrics

Spec == Init /\ [][Next]_vars

---------------------------------------------------------------------------
(* index.php: one script run per request                                   *)

Post == <<"/", "p", "o", "s", "t">>
MetricsPath == <<"/", "m", "e", "t", "r", "i", "c", "s">>
Missing == <<"/", "n", "o", "p", "e">>
RootWithQuery == <<"/", "?", "q">>

HttpMethods == {GET, POST}
RequestUris == {Root, Post, MetricsPath, Missing, RootWithQuery}

\* The status handleRequest's switch arrives at: handlePost answers 405 to
\* anything but POST, handle404 answers 404.
PhpStatus(method, path) ==
    IF path = Root THEN 200
    ELSE IF path = Post THEN (IF method = POST THEN 200 ELSE 405)
    ELSE IF path = MetricsPath THEN 200
    ELSE 404

\* One run of the script: a new WebServer with a new, empty MetricsCollector
\* is built, handleRequest routes the request (/metrics echoes getMetrics of
\* that collector) and records it.
PhpHandleRequest ==
    /\ BagCardinality(completed) < MaxRequests
    /\ \E method \in HttpMethods, uri \in RequestUris, duration \in Durations :
        LET path == UrlPath(uri)
            statusCode == PhpStatus(method, path)
            fresh == EmptyMap
        IN
        /\ output' = IF path = MetricsPath THEN Render(fresh, fresh, <<>>, <<>>) ELSE <<>>
        /\ requestsTotal' = RecordTotal(fresh, CounterKey(method, path, statusCode))
        /\ requestDurations' = RecordDuration(fresh, DurationKey(method, path), duration)
        /\ calls' = calls (+) SetToBag({[method |-> method, endpoint |-> path,
                                          statusCode |-> statusCode, duration |-> duration]})
        /\ completed' = completed (+) SetToBag({[method |-> method, path |-> path,
                                                  statusCode |-> statusCode]})
    /\ UNCHANGED <<renders, goVars, serverVars, chatVars>>

PhpNext == PhpHandleRequest

SpecPhp == Init /\ [][PhpNext]_vars

---------------------------------------------------------------------------
(* The Perl socket server (part_001; part_000 is the same code): one       *)
(* process, one connection handled at a time                               *)

Protocol == <<"HTTP/1.1">>
CRLF == <<"\r", "\n">>
Whitespace == {" ", "\t", "\r", "\n"}

\* The words a client puts on its request line: method, target, protocol; a
\* line of the method alone; or nothing at all.
PerlRequestLines ==
    {<<method, uri, Protocol>> : method \in HttpMethods, uri \in RequestUris}
        \cup {<<GET>>, <<>>}

RECURSIVE JoinWords(_)
JoinWords(words) ==
    IF words = <<>> THEN <<>>
    ELSE IF Len(words) = 1 THEN words[1]
    ELSE words[1] \o <<" ">> \o JoinWords(Tail(words))

\* What the loop in handle_request reads from the client: the request line
\* and the empty line ending the head, or nothing from a client that sent
\* nothing.
PerlRequest(words) ==
    IF words = <<>> THEN <<>> ELSE JoinWords(words) \o CRLF \o CRLF

\* (split('\n', $request))[0]
FirstLine(request) ==
    LET i == IndexFrom(request, "\n", 1) IN
    IF i = 0 THEN request ELSE SubSeq(request, 1, i - 1)

\* Index of the first whitespace character of s, 0 when there is none.
RECURSIVE FirstWhitespace(_, _)
FirstWhitespace(s, i) ==
    IF i > Len(s) THEN 0
    ELSE IF s[i] \in Whitespace THEN i
    ELSE FirstWhitespace(s, i + 1)

\* split(' ', $line): the fields between runs of whitespace, leading
\* whitespace skipped.
RECURSIVE SplitWords(_)
SplitWords(s) ==
    IF s = <<>> THEN <<>>
    ELSE IF s[1] \in Whitespace THEN SplitWords(Tail(s))
    ELSE LET i == FirstWhitespace(s, 1) IN
         IF i = 0 THEN <<s>>
         ELSE <<SubSeq(s, 1, i - 1)>> \o SplitWords(SubSeq(s, i + 1, Len(s)))

\* What Perl takes for false in "$x ||= ...": undef, "" and "0".
PerlFalse(s) == s = <<>> \/ s = <<"0">>

\* $path =~ s/\?.*$//
PerlStripQuery(path) ==
    LET q == IndexFrom(path, "?", 1) IN
    IF q = 0 THEN path ELSE SubSeq(path, 1, q - 1)

\* A handle_post that accepts every method.
PerlHandlePostAnyMethod(method) == 200

\* handle_post($method)
PerlHandlePost(method) == IF method # POST THEN 405 ELSE 200

\* handle_404
PerlHandle404 == 404

\* The status the routing of handle_request arrives at.
PerlRoute(method, path) ==
    IF path = Root THEN 200
    ELSE IF path = Post THEN PerlHandlePost(method)
    ELSE IF path = MetricsPath THEN 200
    ELSE PerlHandle404

\* A handle_request that records the request before it routes it.
PerlHandleRequestRecordFirst(rt, rd, request, duration, ot, od) ==
    LET f == SplitWords(FirstLine(request))
        method == IF Len(f) < 1 \/ PerlFalse(f[1]) THEN GET ELSE f[1]
        path == PerlStripQuery(IF Len(f) < 2 \/ PerlFalse(f[2]) THEN Root ELSE f[2])
        statusCode == PerlRoute(method, path)
        rt2 == RecordTotal(rt, CounterKey(method, path, statusCode))
        rd2 == RecordDuration(rd, DurationKey(method, path), duration)
    IN
    IF request = <<>>
    THEN [handled |-> FALSE, requestsTotal |-> rt, requestDurations |-> rd]
    ELSE [handled |-> TRUE, method |-> method, path |-> path,
          sent |-> statusCode,
          body |-> IF path = MetricsPath
                   THEN Render(rt2, rd2,
                               CHOOSE o \in Orderings(DOMAIN rt2) : TRUE,
                               CHOOSE o \in Orderings(DOMAIN rd2) : TRUE)
                   ELSE <<>>,
          recorded |-> <<statusCode>>,
          requestsTotal |-> rt2,
          requestDurations |-> rd2]

\* handle_request($client) on a collector holding rt and rd: the request is
\* read and its first line parsed, the route fixes the status and the body
\* (for /metrics: get_metrics, iterating the hashes in the orders ot and od),
\* the response is sent, and only then the request is recorded.
PerlHandleRequestOn(rt, rd, request, duration, ot, od) ==
    LET f == SplitWords(FirstLine(request))
        method == IF Len(f) < 1 \/ PerlFalse(f[1]) THEN GET ELSE f[1]
        path == PerlStripQuery(IF Len(f) < 2 \/ PerlFalse(f[2]) THEN Root ELSE f[2])
        statusCode == PerlRoute(method, path)
    IN
    IF request = <<>>
    THEN [handled |-> FALSE, requestsTotal |-> rt, requestDurations |-> rd]
    ELSE [handled |-> TRUE, method |-> method, path |-> path,
          sent |-> statusCode,
          body |-> IF path = MetricsPath THEN Render(rt, rd, ot, od) ELSE <<>>,
          recorded |-> <<statusCode>>,
          requestsTotal |-> RecordTotal(rt, CounterKey(method, path, statusCode)),
          requestDurations |-> RecordDuration(rd, DurationKey(method, path), duration)]

\* One turn of the accept loop of start: the connection is accepted, handled
\* to the end and closed before the next one is accepted.
PerlAccept ==
    /\ BagCardinality(completed) < MaxRequests
    /\ \E words \in PerlRequestLines, duration \in Durations,
          ot \in Orderings(DOMAIN requestsTotal), od \in Orderings(DOMAIN requestDurations) :
        LET r == PerlHandleRequestOn(requestsTotal, requestDurations,
                                     PerlRequest(words), duration, ot, od)
        IN
        IF ~r.handled
        THEN UNCHANGED <<requestsTotal, requestDurations, output, calls, completed,
                         lastRequest>>
        ELSE /\ requestsTotal' = r.requestsTotal
             /\ requestDurations' = r.requestDurations
             /\ output' = r.body
             /\ calls' = calls (+) SetToBag({[method |-> r.method, endpoint |-> r.path,
                                               statusCode |-> r.recorded[1],
                                               duration |-> duration]})
             /\ completed' = completed (+) SetToBag({[method |-> r.method, path |-> r.path,
                                                       statusCode |-> r.sent]})
             /\ lastRequest' = [line |-> words, method |-> r.method, path |-> r.path,
                                fault |-> "none", sent |-> r.sent,
                                finished |-> TRUE, recorded |-> r.recorded,
                                exited |-> FALSE]
    /\ UNCHANGED <<renders, goVars, chatVars>>

PerlNext == PerlAccept

SpecPerl == Init /\ [][PerlNext]_vars

---------------------------------------------------------------------------
(* The Go server whose mux is wrapped in metricsMiddleware.  The middleware *)
(* takes the handler it wraps as a parameter, so the handler is an input:   *)
(* any short sequence of ResponseWriter calls; /metrics is served by the    *)
(* Prometheus handler, which reports the two vectors.                       *)

Goroutines == 1..NumGoroutines

\* An increment that stores 1 instead of adding 1 to the stored count.
CounterVecIncFirstOnly(vec, lvs) ==
    (lvs :> 1) @@ vec

\* httpRequestsTotal.WithLabelValues(lvs...).Inc(): one atomic step of the
\* client library.
CounterVecInc(vec, lvs) ==
    IF lvs \in DOMAIN vec THEN [vec EXCEPT ![lvs] = @ + 1]
    ELSE (lvs :> 1) @@ vec

\* httpRequestDuration.WithLabelValues(lvs...).Observe(v): one atomic step.
HistogramVecObserve(vec, lvs, v) ==
    IF lvs \in DOMAIN vec
    THEN [vec EXCEPT ![lvs] = [count |-> @.count + 1, sum |-> @.sum + v]]
    ELSE (lvs :> [count |-> 1, sum |-> v]) @@ vec

\* ww := &responseWriter{ResponseWriter: w, statusCode: 200}, over a
\* connection that has sent no header yet.
NewResponseWriter == [statusCode |-> 200, wroteHeader |-> FALSE, status |-> 0]

\* The embedded http.ResponseWriter's WriteHeader: the first call sends the
\* status line, a later call is ignored.
ConnWriteHeader(w, code) ==
    IF w.wroteHeader THEN w
    ELSE [w EXCEPT !.wroteHeader = TRUE, !.status = code]

\* The embedded http.ResponseWriter's Write (the wrapper does not override
\* it): it sends the header with status 200 when none was sent.
ConnWrite(w) == ConnWriteHeader(w, 200)

\* func (rw *responseWriter) WriteHeader(code int)
WrapperWriteHeader(w, code) ==
    ConnWriteHeader([w EXCEPT !.statusCode = code], code)

\* The calls a handler may make on the writer it is given.
HandlerOps ==
    {[op |-> "WriteHeader", code |-> 200], [op |-> "WriteHeader", code |-> 500],
     [op |-> "Write", code |-> 0]}

\* The handlers the middleware may wrap: helloHandler and aboutHandler are
\* <<Write>>, healthHandler is <<WriteHeader(200), Write>>.
NextBehaviours == UNION {[1..n -> HandlerOps] : n \in 0..MaxHandlerCalls}

\* next.ServeHTTP(ww, r) for a handler making these calls; when it returns
\* the server sends status 200 if no header was sent.
RECURSIVE RunHandler(_, _)
RunHandler(w, ops) ==
    IF ops = <<>> THEN ConnWriteHeader(w, 200)
    ELSE RunHandler(IF Head(ops).op = "Write" THEN ConnWrite(w)
                    ELSE WrapperWriteHeader(w, Head(ops).code),
                    Tail(ops))

GoMethods == {GET, POST}
GoPaths == {Root, MetricsPath}

\* The middleware up to and including next.ServeHTTP(ww, r).
Serve(g) ==
    /\ pc[g] = "idle"
    /\ \E method \in GoMethods, path \in GoPaths :
        /\ req' = [req EXCEPT ![g] = [method |-> method, path |-> path]]
        /\ IF path = MetricsPath
           THEN /\ gathered' = [totals |-> httpRequestsTotal,
                                durations |-> httpRequestDuration]
                /\ ww' = [ww EXCEPT ![g] = RunHandler(NewResponseWriter,
                                                     <<[op |-> "Write", code |-> 0]>>)]
           ELSE /\ \E ops \in NextBehaviours :
                       ww' = [ww EXCEPT ![g] = RunHandler(NewResponseWriter, ops)]
                /\ UNCHANGED gathered
    /\ pc' = [pc EXCEPT ![g] = "served"]
    /\ UNCHANGED <<httpRequestsTotal, httpRequestDuration, recorded,
                   collectorVars, historyVars, serverVars, chatVars>>

\* httpRequestsTotal.WithLabelValues(r.Method, r.URL.Path,
\*                                   fmt.Sprintf("%d", ww.statusCode)).Inc()
IncTotal(g) ==
    /\ pc[g] = "served"
    /\ LET lvs == <<req[g].method, req[g].path, ToStr(ww[g].statusCode)>> IN
        /\ httpRequestsTotal' = CounterVecInc(httpRequestsTotal, lvs)
        /\ recorded' = [recorded EXCEPT ![g] = lvs]
    /\ pc' = [pc EXCEPT ![g] = "counted"]
    /\ UNCHANGED <<httpRequestDuration, gathered, req, ww, collectorVars, historyVars, serverVars, chatVars>>

\* httpRequestDuration.WithLabelValues(r.Method, r.URL.Path).Observe(duration)
ObserveDuration(g) ==
    /\ pc[g] = "counted"
    /\ \E duration \in Durations :
        httpRequestDuration' =
            HistogramVecObserve(httpRequestDuration, <<req[g].method, req[g].path>>, duration)
    /\ pc' = [pc EXCEPT ![g] = "done"]
    /\ UNCHANGED <<httpRequestsTotal, gathered, req, ww, recorded,
                   collectorVars, historyVars, serverVars, chatVars>>

GoNext == \E g \in Goroutines : Serve(g) \/ IncTotal(g) \/ ObserveDuration(g)

SpecGo == Init /\ [][GoNext]_vars

---------------------------------------------------------------------------
(* The Go server of main.go: prometheusMiddleware wraps three handlers     *)
(* under a fixed endpoint name each; /metrics is registered unwrapped.     *)

HealthPath == <<"/", "h", "e", "a", "l", "t", "h">>
AboutPath == <<"/", "a", "b", "o", "u", "t">>
HelloName == <<"h", "e", "l", "l", "o">>
HealthName == <<"h", "e", "a", "l", "t", "h">>
AboutName == <<"a", "b", "o", "u", "t">>

MainUris == {Root, HealthPath, AboutPath, MetricsPath, Missing, RootWithQuery}

\* The endpoint name of the registration the default mux picks for a path
\* ("/" takes every path no other pattern matches); <<>> for /metrics, which
\* has no middleware.
MainEndpoint(path) ==
    IF path = HealthPath THEN HealthName
    ELSE IF path = AboutPath THEN AboutName
    ELSE IF path = MetricsPath THEN <<>>
    ELSE HelloName

\* One request served by main.go: the three handlers answer 200, and the
\* middleware observes the duration and counts the request under status "200".
MainHandleRequest ==
    /\ BagCardinality(completed) < MaxRequests
    /\ \E method \in HttpMethods, uri \in MainUris, duration \in Durations :
        LET path == UrlPath(uri)
            endpoint == MainEndpoint(path)
        IN
        /\ IF path = MetricsPath
           THEN /\ gathered' = [totals |-> httpRequestsTotal,
                                durations |-> httpRequestDuration]
                /\ UNCHANGED <<httpRequestsTotal, httpRequestDuration, calls>>
           ELSE /\ httpRequestDuration' =
                       HistogramVecObserve(httpRequestDuration, <<endpoint, method>>, duration)
                /\ httpRequestsTotal' =
                       CounterVecInc(httpRequestsTotal, <<endpoint, method, ToStr(200)>>)
                /\ calls' = calls (+) SetToBag({[method |-> method, endpoint |-> endpoint,
                                                  statusCode |-> 200, duration |-> duration]})
                /\ UNCHANGED gathered
        /\ completed' = completed (+) SetToBag({[method |-> method, path |-> path,
                                                  statusCode |-> 200]})
    /\ UNCHANGED <<pc, req, ww, recorded, collectorVars, serverVars, chatVars>>

MainNext == MainHandleRequest

SpecGoMain == Init /\ [][MainNext]_vars

---------------------------------------------------------------------------
(* server.ts: the Node server with the prom-client registry                *)

\* Where a route handler fails: nowhere, before it has written the head
\* (for /metrics: register.metrics() rejects), or after it has.
TsFaults == {"none", "beforeWriteHead", "afterWriteHead"}

\* The ServerResponse handed to handleRequest.
TsNewResponse == [statusCode |-> 0, headersSent |-> FALSE, finished |-> FALSE]

\* res.writeHead(code, ...): throws ERR_HTTP_HEADERS_SENT once the head is
\* written.
TsWriteHead(res, code) ==
    IF res.headersSent THEN [res |-> res, threw |-> TRUE]
    ELSE [res |-> [res EXCEPT !.statusCode = code, !.headersSent = TRUE], threw |-> FALSE]

\* res.end(body)
TsEnd(res) == [res EXCEPT !.finished = TRUE]

\* The two statements every handler answers with: res.writeHead(code, ...);
\* res.end(...), failing where fault says.
TsRespond(res, code, fault) ==
    IF fault = "beforeWriteHead" THEN [res |-> res, threw |-> TRUE]
    ELSE LET w == TsWriteHead(res, code) IN
         IF w.threw \/ fault = "afterWriteHead" THEN [res |-> w.res, threw |-> TRUE]
         ELSE [res |-> TsEnd(w.res), threw |-> FALSE]

\* handlePost: returns the status it answered with.
TsHandlePost(method, res, fault) ==
    LET code == IF method # POST THEN 405 ELSE 200 IN
    TsRespond(res, code, fault) @@ [returned |-> code]

\* handle404
TsHandle404(res, fault) == TsRespond(res, 404, fault) @@ [returned |-> 404]

\* handleHome: returns nothing (0).
TsHandleHome(res, fault) == TsRespond(res, 200, fault) @@ [returned |-> 0]

\* handleMetrics: its own catch answers 500; it returns nothing (0) either
\* way, and the writeHead of its catch throws when the head is written.
TsHandleMetrics(res, fault) ==
    LET r == TsRespond(res, 200, fault) IN
    IF ~r.threw THEN r @@ [returned |-> 0]
    ELSE TsRespond(r.res, 500, "none") @@ [returned |-> 0]

\* The switch of handleRequest.
TsRoute(method, pathname, res, fault) ==
    IF pathname = Root THEN TsHandleHome(res, fault)
    ELSE IF pathname = Post THEN TsHandlePost(method, res, fault)
    ELSE IF pathname = MetricsPath THEN TsHandleMetrics(res, fault)
    ELSE TsHandle404(res, fault)

\* handleRequest up to its call of recordMetrics: statusCode starts at 200
\* and takes the value a handler returns; the catch sets it to 500 and
\* answers 500, and an exception of the catch itself leaves handleRequest
\* (escaped) before recordMetrics is reached.
TsHandle(method, pathname, fault) ==
    LET r == TsRoute(method, pathname, TsNewResponse, fault) IN
    IF ~r.threw
    THEN [res |-> r.res, escaped |-> FALSE,
          statusCode |-> IF r.returned = 0 THEN 200 ELSE r.returned]
    ELSE LET c == TsRespond(r.res, 500, "none") IN
         [res |-> c.res, escaped |-> c.threw, statusCode |-> 500]

\* One request handled by server.ts.  A rejection that escapes handleRequest
\* is unhandled: depending on the Node version the process goes on or exits.
TsHandleRequest ==
    /\ BagCardinality(completed) < MaxRequests
    /\ IF lastRequest = <<>> THEN TRUE ELSE ~lastRequest.exited
    /\ \E method \in HttpMethods, uri \in RequestUris, fault \in TsFaults,
          duration \in Durations, exits \in BOOLEAN :
        LET pathname == IF UrlPath(uri) = <<>> THEN Root ELSE UrlPath(uri)
            h == TsHandle(method, pathname, fault)
        IN
        /\ exits => h.escaped
        /\ IF h.escaped
           THEN UNCHANGED <<httpRequestsTotal, httpRequestDuration, calls>>
           ELSE /\ httpRequestsTotal' =
                       CounterVecInc(httpRequestsTotal,
                                     <<method, pathname, ToStr(h.statusCode)>>)
                /\ httpRequestDuration' =
                       HistogramVecObserve(httpRequestDuration, <<method, pathname>>, duration)
                /\ calls' = calls (+) SetToBag({[method |-> method, endpoint |-> pathname,
                                                  statusCode |-> h.statusCode,
                                                  duration |-> duration]})
        /\ completed' = completed (+) SetToBag({[method |-> method, path |-> pathname,
                                                  statusCode |-> h.res.statusCode]})
        /\ lastRequest' = [line |-> <<method, uri>>, method |-> method, path |-> pathname,
                           fault |-> fault, sent |-> h.res.statusCode,
                           finished |-> h.res.finished,
                           recorded |-> IF h.escaped THEN <<>> ELSE <<h.statusCode>>,
                           exited |-> exits]
    /\ UNCHANGED <<collectorVars, gathered, pc, req, ww, recorded, chatVars>>

TsNext == TsHandleRequest

SpecTs == Init /\ [][TsNext]_vars

---------------------------------------------------------------------------
(* main.go, the chat server: one chatHandler goroutine per connection and  *)
(* the handleMessages goroutine share the clients map and the unbuffered   *)
(* broadcast channel.  An access to the map takes time: it is begun and    *)
(* ended in two steps.                                                     *)

Conns == 1..NumConns

\* The goroutine running handleMessages.
Broadcaster == 0

ChatGoroutines == Conns \cup {Broadcaster}

\* The goroutines in the middle of an access to clients that an access of
\* the given kind by g conflicts with: two accesses conflict unless both
\* are reads.
Conflicts(g, kind) ==
    {h \in ChatGoroutines \ {g} :
        access[h] # "none" /\ (kind = "write" \/ access[h] = "write")}

\* g begins an access to clients; no lock is taken.
BeginAccess(g, kind) ==
    /\ access' = [access EXCEPT ![g] = kind]
    /\ tainted' = IF Conflicts(g, kind) # {}
                  THEN tainted \cup {g} \cup Conflicts(g, kind)
                  ELSE tainted

\* g ends its access, which leaves the map as result.  After a race a write
\* may leave anything in the map, and the runtime may have ended the process with
\* "fatal error: concurrent map writes" (or "... iteration and map write").
EndAccess(g, result) ==
    /\ access' = [access EXCEPT ![g] = "none"]
    /\ tainted' = tainted \ {g}
    /\ IF g \in tainted
       THEN /\ IF access[g] = "write" THEN clients' \in SUBSET Conns ELSE clients' = clients
            /\ crashed' \in BOOLEAN
       ELSE /\ clients' = result
            /\ crashed' = FALSE

\* The chat server shares nothing with the other programs.
RestUnchanged == UNCHANGED <<collectorVars, historyVars, goVars, serverVars>>

\* chatHandler: upgrader.Upgrade, which may fail.
Connect(c) ==
    /\ ~crashed
    /\ RestUnchanged
    /\ chatPc[c] = "idle"
    /\ \E ok \in BOOLEAN : chatPc' = [chatPc EXCEPT ![c] = IF ok THEN "add" ELSE "done"]
    /\ UNCHANGED <<clients, visiting, cur, access, tainted, crashed, closed, msgs>>

\* chatHandler: clients[conn] = true
BeginAdd(c) ==
    /\ ~crashed
    /\ RestUnchanged
    /\ chatPc[c] = "add"
    /\ BeginAccess(c, "write")
    /\ chatPc' = [chatPc EXCEPT ![c] = "adding"]
    /\ UNCHANGED <<clients, visiting, cur, crashed, closed, msgs>>

EndAdd(c) ==
    /\ ~crashed
    /\ RestUnchanged
    /\ chatPc[c] = "adding"
    /\ EndAccess(c, clients \cup {c})
    /\ chatPc' = [chatPc EXCEPT ![c] = "len"]
    /\ UNCHANGED <<visiting, cur, closed, msgs>>

\* chatHandler: len(clients) for the log line
BeginLen(c) ==
    /\ ~crashed
    /\ RestUnchanged
    /\ chatPc[c] = "len"
    /\ BeginAccess(c, "read")
    /\ chatPc' = [chatPc EXCEPT ![c] = "counting"]
    /\ UNCHANGED <<clients, visiting, cur, crashed, closed, msgs>>

EndLen(c) ==
    /\ ~crashed
    /\ RestUnchanged
    /\ chatPc[c] = "counting"
    /\ EndAccess(c, clients)
    /\ chatPc' = [chatPc EXCEPT ![c] = "read"]
    /\ UNCHANGED <<visiting, cur, closed, msgs>>

\* chatHandler: conn.ReadMessage() returns a message, or an error once the
\* peer has gone or the connection was closed.
ReadMessage(c) ==
    /\ ~crashed
    /\ RestUnchanged
    /\ chatPc[c] = "read"
    /\ \/ /\ c \notin closed
          /\ msgs[c] < MaxMessages
          /\ msgs' = [msgs EXCEPT ![c] = @ + 1]
          /\ chatPc' = [chatPc EXCEPT ![c] = "send"]
          /\ UNCHANGED closed
       \/ /\ closed' = closed \cup {c}
          /\ chatPc' = [chatPc EXCEPT ![c] = "delete"]
          /\ UNCHANGED msgs
    /\ UNCHANGED <<clients, visiting, cur, access, tainted, crashed>>

\* chatHandler: delete(clients, conn), then break and the deferred Close
BeginDelete(c) ==
    /\ ~crashed
    /\ RestUnchanged
    /\ chatPc[c] = "delete"
    /\ BeginAccess(c, "write")
    /\ chatPc' = [chatPc EXCEPT ![c] = "deleting"]
    /\ UNCHANGED <<clients, visiting, cur, crashed, closed, msgs>>

EndDelete(c) ==
    /\ ~crashed
    /\ RestUnchanged
    /\ chatPc[c] = "deleting"
    /\ EndAccess(c, clients \ {c})
    /\ chatPc' = [chatPc EXCEPT ![c] = "done"]
    /\ UNCHANGED <<visiting, cur, closed, msgs>>

\* chatHandler: broadcast <- msg meets handleMessages: message := <-broadcast
\* (the channel has no buffer); handleMessages enters its range loop.
Broadcast(c) ==
    /\ ~crashed
    /\ RestUnchanged
    /\ chatPc[c] = "send"
    /\ chatPc[Broadcaster] = "receive"
    /\ chatPc' = [chatPc EXCEPT ![c] = "read", ![Broadcaster] = "range"]
    /\ visiting' = Conns
    /\ UNCHANGED <<clients, cur, access, tainted, crashed, closed, msgs>>

\* handleMessages: for client := range clients, fetching the next entry
BeginRange ==
    /\ ~crashed
    /\ RestUnchanged
    /\ chatPc[Broadcaster] = "range"
    /\ BeginAccess(Broadcaster, "read")
    /\ chatPc' = [chatPc EXCEPT ![Broadcaster] = "ranging"]
    /\ UNCHANGED <<clients, visiting, cur, crashed, closed, msgs>>

\* The loop is at the next entry it has not visited, or over when there is
\* none.
EndRange ==
    /\ ~crashed
    /\ RestUnchanged
    /\ chatPc[Broadcaster] = "ranging"
    /\ EndAccess(Broadcaster, clients)
    /\ LET left == IF Broadcaster \in tainted THEN visiting ELSE visiting \cap clients IN
       \/ /\ left = {} \/ Broadcaster \in tainted
          /\ chatPc' = [chatPc EXCEPT ![Broadcaster] = "receive"]
          /\ visiting' = {}
          /\ cur' = 0
       \/ \E client \in left :
            /\ chatPc' = [chatPc EXCEPT ![Broadcaster] = "write"]
            /\ visiting' = visiting \ {client}
            /\ cur' = client
    /\ UNCHANGED <<closed, msgs>>

\* handleMessages: client.WriteMessage succeeds, or fails (it does on a
\* closed connection) and the client is closed.
WriteMessage ==
    /\ ~crashed
    /\ RestUnchanged
    /\ chatPc[Broadcaster] = "write"
    /\ \/ /\ cur \notin closed
          /\ chatPc' = [chatPc EXCEPT ![Broadcaster] = "range"]
          /\ UNCHANGED closed
       \/ /\ closed' = closed \cup {cur}
          /\ chatPc' = [chatPc EXCEPT ![Broadcaster] = "delete"]
    /\ UNCHANGED <<clients, visiting, cur, access, tainted, crashed, msgs>>

\* handleMessages: delete(clients, client)
BeginBroadcasterDelete ==
    /\ ~crashed
    /\ RestUnchanged
    /\ chatPc[Broadcaster] = "delete"
    /\ BeginAccess(Broadcaster, "write")
    /\ chatPc' = [chatPc EXCEPT ![Broadcaster] = "deleting"]
    /\ UNCHANGED <<clients, visiting, cur, crashed, closed, msgs>>

EndBroadcasterDelete ==
    /\ ~crashed
    /\ RestUnchanged
    /\ chatPc[Broadcaster] = "deleting"
    /\ EndAccess(Broadcaster, clients \ {cur})
    /\ chatPc' = [chatPc EXCEPT ![Broadcaster] = "range"]
    /\ UNCHANGED <<visiting, cur, closed, msgs>>

ChatHandlerStep(c) ==
    \/ Connect(c)
    \/ BeginAdd(c)
    \/ EndAdd(c)
    \/ BeginLen(c)
    \/ EndLen(c)
    \/ ReadMessage(c)
    \/ BeginDelete(c)
    \/ EndDelete(c)
    \/ Broadcast(c)

HandleMessagesStep ==
    \/ BeginRange
    \/ EndRange
    \/ WriteMessage
    \/ BeginBroadcasterDelete
    \/ EndBroadcasterDelete

ChatNext == (\E c \in Conns : ChatHandlerStep(c)) \/ HandleMessagesStep

SpecChat == Init /\ [][ChatNext]_vars

---------------------------------------------------------------------------
(* What the history says, for the properties below                         *)

\* Number of copies, in bag B, of the elements of S.
RECURSIVE SumCopies(_, _)
SumCopies(S, B) ==
    IF S = {} THEN 0
    ELSE LET c == CHOOSE x \in S : TRUE IN CopiesIn(c, B) + SumCopies(S \ {c}, B)

\* Record calls made with exactly this triple, and with exactly this pair.
CallsWithTriple(method, endpoint, statusCode) ==
    SumCopies({c \in BagToSet(calls) : /\ c.method = method
                                       /\ c.endpoint = endpoint
                                       /\ c.statusCode = statusCode}, calls)

CallsWithPair(method, endpoint) ==
    SumCopies({c \in BagToSet(calls) : c.method = method /\ c.endpoint = endpoint}, calls)

\* The counter and the sample count the collector holds for a triple / a pair.
CounterOf(method, endpoint, statusCode) ==
    LET key == CounterKey(method, endpoint, statusCode) IN
    IF key \in DOMAIN requestsTotal THEN requestsTotal[key] ELSE 0

SampleCountOf(method, endpoint) ==
    LET key == DurationKey(method, endpoint) IN
    IF key \in DOMAIN requestDurations THEN Len(requestDurations[key]) ELSE 0

RecordedTriples == {<<c.method, c.endpoint, c.statusCode>> : c \in BagToSet(calls)}
RecordedPairs == {<<c.method, c.endpoint>> : c \in BagToSet(calls)}

HasSep(s) == FirstSepFrom(s, 1) # 0

\* Number of times line l occurs in the output o.
Occurrences(l, o) == Cardinality({i \in DOMAIN o : o[i] = l})

\* Two outputs hold the same lines the same number of times.
SameLines(a, b) ==
    \A l \in Range(a) \cup Range(b) : Occurrences(l, a) = Occurrences(l, b)

---------------------------------------------------------------------------
(* Properties of the collector, checked under Spec                         *)

\* C1: after any sequence of record calls, the counter of every (method,
\* endpoint, status_code) triple equals the number of record calls made with
\* exactly that triple, and the sample count of every (method, endpoint) pair
\* equals the number of record calls made with exactly that pair.
C1_CountersEqualCalls ==
    \A c \in BagToSet(calls) :
        /\ CounterOf(c.method, c.endpoint, c.statusCode)
               = CallsWithTriple(c.method, c.endpoint, c.statusCode)
        /\ SampleCountOf(c.method, c.endpoint) = CallsWithPair(c.method, c.endpoint)

\* C3: after a record whose endpoint holds the separator, the rendered output
\* has an http_requests_total line whose method, endpoint and status_code
\* labels are exactly the values passed to record.
C3_LabelsReportedAsPassed ==
    output # <<>> =>
        \A c \in BagToSet(calls) :
            HasSep(c.endpoint) =>
                \E n \in 1..MaxCalls :
                    TotalLine(c.method, c.endpoint, ToStr(c.statusCode), ToStr(n))
                        \in Range(output)

\* C4: two record calls update the same counter entry only if their triples
\* are equal, and the same duration entry only if their pairs are equal: the
\* collector holds one entry per distinct triple and per distinct pair.
C4_DistinctTuplesDistinctEntries ==
    /\ Cardinality(DOMAIN requestsTotal) = Cardinality(RecordedTriples)
    /\ Cardinality(DOMAIN requestDurations) = Cardinality(RecordedPairs)

\* C9: a getMetrics call leaves both hashes as they were: every step that
\* returns an output keeps requestsTotal and requestDurations unchanged.
C9_RenderIsPureRead ==
    [][output' # <<>> =>
          /\ requestsTotal' = requestsTotal
          /\ requestDurations' = requestDurations]_vars

\* getMetrics has returned from a collector that holds two counters or more.
C9_Witness ==
    /\ output # <<>>
    /\ renders >= 1
    /\ Cardinality(DOMAIN requestsTotal) >= 2

\* C10: two getMetrics calls with no record call between them return the
\* same lines the same number of times, in whatever order.
C10_RenderIdempotent ==
    [][(output # <<>> /\ output' # <<>>) => SameLines(output, output')]_vars

\* getMetrics has returned twice in a row from a collector with two entries
\* or more in each hash.
C10_Witness ==
    /\ renders = 2
    /\ Cardinality(DOMAIN requestsTotal) >= 2
    /\ Cardinality(DOMAIN requestDurations) >= 2
    /\ Len(output) >= 10

---------------------------------------------------------------------------
(* Properties of index.php as served, checked under SpecPhp                *)

\* C5: entries only accumulate across handled requests: no step lowers a
\* counter or shortens a duration list, and no step removes an entry.
C5_EntriesOnlyAccumulate ==
    [][/\ \A k \in DOMAIN requestsTotal :
              k \in DOMAIN requestsTotal' /\ requestsTotal'[k] >= requestsTotal[k]
       /\ \A k \in DOMAIN requestDurations :
              /\ k \in DOMAIN requestDurations'
              /\ Len(requestDurations'[k]) >= Len(requestDurations[k])
              /\ SumSeq(requestDurations'[k]) >= SumSeq(requestDurations[k])]_vars

---------------------------------------------------------------------------
(* Properties of the Go middleware, checked under SpecGo                   *)

AllDone == \A g \in Goroutines : pc[g] = "done"

\* C2: when the concurrent requests have all been recorded, the counter of
\* each label triple equals the number of requests recorded under it and the
\* sample count of each (method, endpoint) pair equals the number of requests
\* with that pair, whatever the interleaving: no update is lost.
C2_NoLostUpdates ==
    AllDone =>
        \A g \in Goroutines :
            /\ httpRequestsTotal[recorded[g]]
                   = Cardinality({h \in Goroutines : recorded[h] = recorded[g]})
            /\ httpRequestDuration[<<req[g].method, req[g].path>>].count
                   = Cardinality({h \in Goroutines : req[h] = req[g]})

\* Every goroutine has recorded a request under the same label triple.
C2_Witness ==
    /\ AllDone
    /\ \A g \in Goroutines : recorded[g] = recorded[1]
    /\ httpRequestsTotal[recorded[1]] = NumGoroutines
    /\ httpRequestDuration[<<req[1].method, req[1].path>>].count = NumGoroutines

\* C7: the status_code label a request is counted under is the status sent
\* to the client for that request.
C7_RecordedStatusIsSentStatus ==
    \A g \in Goroutines :
        recorded[g] # <<>> => recorded[g][3] = ToStr(ww[g].status)

\* Sum of the counters of vec whose method and endpoint labels are pair.
RECURSIVE SumTotals(_, _, _)
SumTotals(vec, keys, pair) ==
    IF keys = {} THEN 0
    ELSE LET k == CHOOSE x \in keys : TRUE IN
         (IF <<k[1], k[2]>> = pair THEN vec[k] ELSE 0) + SumTotals(vec, keys \ {k}, pair)

\* C8: in every /metrics response, for each (method, endpoint) the counters
\* summed over the status codes equal the histogram's sample count.
C8_GatheredIsConsistent ==
    \A pair \in {<<k[1], k[2]>> : k \in DOMAIN gathered.totals} \cup DOMAIN gathered.durations :
        SumTotals(gathered.totals, DOMAIN gathered.totals, pair)
            = (IF pair \in DOMAIN gathered.durations
               THEN gathered.durations[pair].count ELSE 0)

---------------------------------------------------------------------------
(* Properties of the HTTP layer of main.go, checked under SpecGoMain       *)

\* Requests answered with exactly this method and path.
CompletedWithPair(method, path) ==
    SumCopies({q \in BagToSet(completed) : q.method = method /\ q.path = path}, completed)

\* C6: every answered request, on every route, is recorded exactly once,
\* under its method and its path without the query string: there are as many
\* record calls as answered requests, and for each answered request as many
\* record calls with its (method, path) as requests answered with them.
C6_OneRecordPerRequest ==
    /\ BagCardinality(calls) = BagCardinality(completed)
    /\ \A q \in BagToSet(completed) :
           CallsWithPair(q.method, q.path) = CompletedWithPair(q.method, q.path)

---------------------------------------------------------------------------
(* Reading an output back, as a scraper does                               *)

EndpointMark == "\",endpoint=\""
StatusMark == "\",status_code=\""
ValueMark == "\"} "

IsTotalLine(l) == l # <<>> /\ l[1] = "http_requests_total{method=\""
IsCountLine(l) == l # <<>> /\ l[1] = "http_request_duration_seconds_count{method=\""
IsSumLine(l) == l # <<>> /\ l[1] = "http_request_duration_seconds_sum{method=\""

LineMethod(l) == SubSeq(l, 2, IndexFrom(l, EndpointMark, 1) - 1)

LineEndpoint(l) ==
    LET i == IndexFrom(l, EndpointMark, 1)
        j == IF IsTotalLine(l) THEN IndexFrom(l, StatusMark, 1) ELSE IndexFrom(l, ValueMark, 1)
    IN SubSeq(l, i + 1, j - 1)

LineStatus(l) == SubSeq(l, IndexFrom(l, StatusMark, 1) + 1, IndexFrom(l, ValueMark, 1) - 1)

\* The number a decimal text stands for.
RECURSIVE ToNat(_)
ToNat(s) ==
    IF s = <<>> THEN 0
    ELSE ToNat(SubSeq(s, 1, Len(s) - 1)) * 10
             + (CHOOSE d \in 0..9 : Digits[d + 1] = s[Len(s)])

LineValue(l) == ToNat(SubSeq(l, IndexFrom(l, ValueMark, 1) + 1, Len(l)))

\* The labels of a line joined the way the collector joins a key.
LineKey(l) ==
    IF IsTotalLine(l)
    THEN LineMethod(l) \o <<Sep>> \o LineEndpoint(l) \o <<Sep>> \o LineStatus(l)
    ELSE LineMethod(l) \o <<Sep>> \o LineEndpoint(l)

TotalLinesAt(o) == {i \in DOMAIN o : IsTotalLine(o[i])}
CountLinesAt(o) == {i \in DOMAIN o : IsCountLine(o[i])}
SumLinesAt(o) == {i \in DOMAIN o : IsSumLine(o[i])}

\* Sum of the values of the lines of o at the places I.
RECURSIVE SumValues(_, _)
SumValues(o, I) ==
    IF I = {} THEN 0
    ELSE LET i == CHOOSE x \in I : TRUE IN LineValue(o[i]) + SumValues(o, I \ {i})

\* The place of the only occurrence of line l in o (0 when it is not there once).
PlaceOf(l, o) ==
    IF Occurrences(l, o) = 1 THEN CHOOSE i \in DOMAIN o : o[i] = l ELSE 0

\* Sum of the durations of the calls of S, each counted as often as it was made.
RECURSIVE SumDurations(_, _)
SumDurations(S, B) ==
    IF S = {} THEN 0
    ELSE LET c == CHOOSE x \in S : TRUE IN
         c.duration * CopiesIn(c, B) + SumDurations(S \ {c}, B)

DurationsWithPair(method, endpoint) ==
    SumDurations({c \in BagToSet(calls) : c.method = method /\ c.endpoint = endpoint}, calls)

SampleSumOf(method, endpoint) ==
    LET key == DurationKey(method, endpoint) IN
    IF key \in DOMAIN requestDurations THEN SumSeq(requestDurations[key]) ELSE 0

---------------------------------------------------------------------------
(* Properties of the rendered output, checked under Spec                   *)

C12_EmptyRenderIsHeadersOnly ==
    (output # <<>> /\ calls = EmptyBag) =>
        output = <<HelpTotal, TypeTotal, HelpDuration, TypeDuration>>

\* getMetrics has returned before any record call.
C12_Witness ==
    /\ output # <<>>
    /\ calls = EmptyBag
    /\ renders >= 1

\* C14: the sample sum held for every recorded (method, endpoint) pair is the
\* sum of the durations passed in the record calls with that pair, and the
\* output has the _sum line of that pair with that value.
C14_SumEqualsDurations ==
    \A c \in BagToSet(calls) :
        /\ SampleSumOf(c.method, c.endpoint) = DurationsWithPair(c.method, c.endpoint)
        /\ output # <<>> =>
               SumLine(c.method, c.endpoint, ToStr(DurationsWithPair(c.method, c.endpoint)))
                   \in Range(output)

\* The (method, endpoint) label pairs of the lines of o at the places I.
LabelPairsAt(o, I) == {<<LineMethod(o[i]), LineEndpoint(o[i])>> : i \in I}

\* C17: in the output the two families agree: a (method, endpoint) label
\* pair appears on an http_requests_total line if and only if it appears on
\* a _count line, and the http_requests_total values of a pair add up to the
\* pair's _count value.
C17_FamiliesAgree ==
    output # <<>> =>
        /\ LabelPairsAt(output, TotalLinesAt(output)) = LabelPairsAt(output, CountLinesAt(output))
        /\ \A p \in LabelPairsAt(output, TotalLinesAt(output)) :
               SumValues(output, {i \in TotalLinesAt(output) :
                                      <<LineMethod(output[i]), LineEndpoint(output[i])>> = p})
                 = SumValues(output, {i \in CountLinesAt(output) :
                                      <<LineMethod(output[i]), LineEndpoint(output[i])>> = p})

---------------------------------------------------------------------------
(* Properties of the socket servers                                        *)

\* The path a request line asks for: its target up to the query; "/" when
\* the line has no target.
AskedPath(line) == IF Len(line) < 2 THEN Root ELSE UrlPath(line[2])

\* The method a request line names.
AskedMethod(line) == line[1]

\* C15: the path the request asks for fixes the status: "/" and "/metrics"
\* are answered 200 whatever the method, "/post" is answered 200 to POST and
\* 405 to every other method, every other path is answered 404; and the
\* status passed to record_request is the status sent.
C15_RouteFixesStatus ==
    lastRequest # <<>> =>
        LET path == AskedPath(lastRequest.line)
            method == AskedMethod(lastRequest.line)
        IN
        /\ path \in {Root, MetricsPath} => lastRequest.sent = 200
        /\ path = Post => lastRequest.sent = (IF method = POST THEN 200 ELSE 405)
        /\ path \notin {Root, MetricsPath, Post} => lastRequest.sent = 404
        /\ lastRequest.recorded = <<lastRequest.sent>>

\* The Perl server has answered a GET of /post, and before it a request of
\* an unknown path.
C15_Witness ==
    /\ lastRequest # <<>>
    /\ AskedPath(lastRequest.line) = Post
    /\ AskedMethod(lastRequest.line) = GET
    /\ lastRequest.sent = 405
    /\ \E c \in BagToSet(completed) : c.statusCode = 404

\* Sum of the values of f at the keys S.
RECURSIVE SumOver(_, _)
SumOver(f, S) ==
    IF S = {} THEN 0
    ELSE LET k == CHOOSE x \in S : TRUE IN f[k] + SumOver(f, S \ {k})

\* C16: in the Perl server the body of a /metrics response reports every
\* request completed before it and not the /metrics request itself, which
\* is in the collector when the next connection is accepted: the counters
\* and the sample counts of the body each add up to the number of requests
\* completed less one, those of the collector to the number completed.
C16_MetricsBodyReflectsEarlierRequests ==
    /\ SumOver(requestsTotal, DOMAIN requestsTotal) = BagCardinality(completed)
    /\ (lastRequest # <<>> /\ lastRequest.path = MetricsPath) =>
           /\ output # <<>>
           /\ SumValues(output, TotalLinesAt(output)) = BagCardinality(completed) - 1
           /\ SumValues(output, CountLinesAt(output)) = BagCardinality(completed) - 1

\* The second request the Perl server handled was a /metrics request.
C16_Witness ==
    /\ lastRequest # <<>>
    /\ lastRequest.path = MetricsPath
    /\ BagCardinality(completed) = 2
    /\ Len(output) > 4

\* C13: a request whose route handler failed is answered 500 and recorded
\* once, with status 500.
C13_FailureAnswered500AndRecorded ==
    (lastRequest # <<>> /\ lastRequest.fault # "none") =>
        /\ lastRequest.sent = 500
        /\ lastRequest.recorded = <<500>>

---------------------------------------------------------------------------
(* Property of the chat server                                             *)

\* C18: no two goroutines are in the middle of an access to the clients map
\* at the same time, unless both only read it.
C18_ClientsAccessExclusive ==
    \A g, h \in ChatGoroutines :
        (g # h /\ access[g] # "none" /\ access[h] # "none") =>
            (access[g] = "read" /\ access[h] = "read")

====
